---- MODULE Spec2Model ----
(***************************************************************************)
(* Streaming chat client (App in src/react-app/tailwind.config.js, lines   *)
(* 29-305): the SSE read loop of handleSubmit, processEvent, appendChunk   *)
(* and handleStop.                                                         *)
(*                                                                         *)
(* Text is a sequence of code units.  A code unit is written as a short    *)
(* string: "NL" is the newline, "SP" a space, "data:" the five characters  *)
(* of the SSE field prefix, and the JSON payload of a data line is written *)
(* with one unit per syntactic piece ("chunk:" is {"event":"chunk",        *)
(* "content":"...), so that a frame can be cut between any two units.      *)
(* Bytes "C3" "A9" are the two bytes of one UTF-8 character, "U+E9".       *)
(***************************************************************************)
EXTENDS Integers, Sequences, FiniteSets, TLC

VARIABLES
    messages,        \* useState<Message[]>                      (line 77)
    inputValue,      \* useState('')                             (line 78)
    isStreaming,     \* useState(false)                          (line 79)
    errorMessage,    \* useState<string | null>: <<>> is null    (line 80)
    abortRef,        \* streamAbortController.current, 0 is null (line 83)
    pc,              \* where handleSubmit is suspended: idle, fetch, read
    abortController, \* const abortController of the session    (line 155)
    abortedSignals,  \* the controllers whose signal is aborted, since the
                     \* latest accepted submission
    assistantId,     \* assistantMessage.id of the session       (line 129)
    reader,          \* let reader: "null" or "locked"           (line 158)
    decoderPending,  \* bytes the TextDecoder holds back         (line 173)
    buffer,          \* let buffer                               (line 174)
    wire,            \* bytes of the response body not yet read
    stream,          \* history: the whole response body of the session
    trace,           \* history: what processEvent did, in order
    exitPath,        \* history: how the last session ended
    requestBody,     \* history: payload.messages of the last fetch (line 149)
    nSessions,       \* history: submissions accepted
    nFetches,        \* history: fetch calls started
    nControllers,    \* history: AbortControllers created
    nReleases,       \* history: reader.releaseLock() calls of the session
    rejected,        \* history: why the latest handleSubmit returned early
    fed,             \* history of the reassembly alone: the cuts made
    framesLeft,      \* frames the backend may still send (bound)
    frames,          \* frame reassembly on its own: frames emitted so far
    proxy            \* the proxy handler: its request, upstream and response

clientVars ==
    <<messages, inputValue, isStreaming, errorMessage, abortRef, pc,
      abortController, abortedSignals, assistantId, reader, decoderPending, buffer, wire,
      stream, trace, exitPath, requestBody, nSessions, nFetches,
      nControllers, nReleases, rejected, fed, framesLeft, frames>>

vars == <<clientVars, proxy>>

\* ---------------------------------------------------------------- bounds
MaxSessions == 2
MaxFrames == 2
MaxBytes == 5
MaxRelay == 3

\* ------------------------------------------------------------- text units
NL == "NL"
SP == "SP"
Whitespace == {NL, SP}

None == <<>>
Some(x) == <<x>>

\* The fixed messages of the client, each one unit of text.
GenerationCancelled == <<"Generation cancelled.">>                \* line 200
UnableToConnect == <<"Unable to connect to the assistant.">>      \* line 169
AssistantIssue == <<"The assistant ran into an issue.">>          \* line 107
UnexpectedPayload == <<"Unexpected response payload.">>           \* line 112
\* Messages the platform gives to the errors it throws.
SyntaxErrorMessage == <<"Unexpected token in JSON">>
FetchFailedMessages == {<<"Failed to fetch">>, <<"Load failed">>}
ReadFailedMessage == <<"network error">>

\* Below, CHOOSE r \in {F(v) : v \in {e}} : TRUE is F(e) with e evaluated
\* once.

RECURSIVE Flatten(_)
Flatten(ss) == IF ss = <<>> THEN <<>> ELSE Head(ss) \o Flatten(Tail(ss))

Last(s) == s[Len(s)]
Front(s) == SubSeq(s, 1, Len(s) - 1)

\* ------------------------------------------------- TextDecoder (line 173)
\* decoder.decode(value, { stream }) of line 179 for UTF-8: a lead byte
\* waits for its continuation byte, across calls while stream is true; a
\* lead byte without continuation and a continuation byte without lead
\* byte each decode to U+FFFD.
LeadByte == "C3"
ContinuationByte == "A9"
DecodedChar == "U+E9"
ReplacementChar == "U+FFFD"

RECURSIVE DecodeBytes(_, _, _)
DecodeBytes(pending, bytes, out) ==
    IF bytes = <<>> THEN [text |-> out, pending |-> pending]
    ELSE LET b == Head(bytes) IN
         IF pending # <<>>
         THEN IF b = ContinuationByte
              THEN DecodeBytes(<<>>, Tail(bytes), Append(out, DecodedChar))
              ELSE DecodeBytes(<<>>, bytes, Append(out, ReplacementChar))
         ELSE IF b = LeadByte
              THEN DecodeBytes(<<b>>, Tail(bytes), out)
              ELSE IF b = ContinuationByte
                   THEN DecodeBytes(<<>>, Tail(bytes), Append(out, ReplacementChar))
                   ELSE DecodeBytes(<<>>, Tail(bytes), Append(out, b))

\* A decoder that forgets the held-back byte between calls (each chunk
\* decoded in isolation).
DecodeIsolated(pending, bytes, streaming) ==
    LET r == DecodeBytes(<<>>, bytes, <<>>) IN
    [text |-> IF r.pending # <<>> THEN Append(r.text, ReplacementChar) ELSE r.text,
     pending |-> <<>>]

Decode(pending, bytes, streaming) ==
    LET r == DecodeBytes(pending, bytes, <<>>) IN
    IF streaming \/ r.pending = <<>> THEN r
    ELSE [text |-> Append(r.text, ReplacementChar), pending |-> <<>>]

\* ------------------------------------------ buffer.split('\n\n') (line 181)
\* The least i with s[i] and s[i+1] both newlines, 0 when there is none.
DelimiterAt(s) ==
    LET hits == {i \in 1..(Len(s) - 1) : s[i] = NL /\ s[i + 1] = NL} IN
    IF hits = {} THEN 0 ELSE CHOOSE i \in hits : \A j \in hits : i <= j

RECURSIVE SplitAt(_, _)
SplitAt(s, i) ==
    IF i = 0 THEN <<s>>
    ELSE <<SubSeq(s, 1, i - 1)>> \o
         (CHOOSE r \in {SplitAt(t, DelimiterAt(t)) : t \in {SubSeq(s, i + 2, Len(s))}} :
             TRUE)

Split(s) == CHOOSE r \in {SplitAt(t, DelimiterAt(t)) : t \in {s}} : TRUE

\* chunk.split('\n') (line 97)
LineEnd(s) ==
    LET hits == {i \in 1..Len(s) : s[i] = NL} IN
    IF hits = {} THEN 0 ELSE CHOOSE i \in hits : \A j \in hits : i <= j

RECURSIVE SplitLinesAt(_, _)
SplitLinesAt(s, i) ==
    IF i = 0 THEN <<s>>
    ELSE <<SubSeq(s, 1, i - 1)>> \o
         (CHOOSE r \in {SplitLinesAt(t, LineEnd(t)) : t \in {SubSeq(s, i + 1, Len(s))}} :
             TRUE)

SplitLines(s) == CHOOSE r \in {SplitLinesAt(t, LineEnd(t)) : t \in {s}} : TRUE

\* String.prototype.trim (lines 120, 122, 191)
RECURSIVE TrimStart(_)
TrimStart(s) ==
    IF s # <<>> /\ Head(s) \in Whitespace THEN TrimStart(Tail(s)) ELSE s

RECURSIVE TrimEnd(_)
TrimEnd(s) ==
    IF s # <<>> /\ Last(s) \in Whitespace THEN TrimEnd(Front(s)) ELSE s

Trim(s) == TrimEnd(TrimStart(s))

\* ------------------------------------------------ processEvent (95-116)
DataPrefix == "data:"

\* line.startsWith('data:') (line 98)
StartsWithData(line) == line # <<>> /\ Head(line) = DataPrefix

\* chunk.split('\n').find(...) (lines 96-98): <<>> when no line matches,
\* else the first matching line, wrapped.
RECURSIVE FindDataLine(_)
FindDataLine(lines) ==
    IF lines = <<>> THEN None
    ELSE IF StartsWithData(Head(lines)) THEN Some(Head(lines))
    ELSE FindDataLine(Tail(lines))

RECURSIVE SkipSpaces(_)
SkipSpaces(s) ==
    IF s # <<>> /\ Head(s) \in Whitespace THEN SkipSpaces(Tail(s)) ELSE s

\* dataLine.replace(/^data:\s*/, '') (line 103)
StripDataPrefix(line) == SkipSpaces(Tail(line))

\* JSON.parse(...) as SsePayload (line 103).  The payload texts are
\*   "chunk:" c...   {"event":"chunk","content":"c..."}
\*   "chunk"         {"event":"chunk"}            (content absent)
\*   "chunk#" n      {"event":"chunk","content":n}  (content a number)
\*   "done"          {"event":"done"}
\*   "error:" c...   {"event":"error","content":"c..."}
\*   "error"         {"event":"error"}            (content absent)
\*   "ping"          {"event":"ping"}             (an event of no known kind)
\* and every other text is not JSON: JSON.parse throws a SyntaxError.
JSONparse(text) ==
    IF text # <<>> /\ Head(text) \in {"chunk:", "error:"}
    THEN [ok |-> TRUE, event |-> IF Head(text) = "chunk:" THEN "chunk" ELSE "error",
          hasContent |-> TRUE, isString |-> TRUE, content |-> Tail(text)]
    ELSE IF Len(text) = 2 /\ Head(text) = "chunk#"
    THEN [ok |-> TRUE, event |-> "chunk", hasContent |-> TRUE, isString |-> FALSE,
          content |-> Tail(text)]
    ELSE IF text \in {<<"chunk">>, <<"done">>, <<"error">>, <<"ping">>}
    THEN [ok |-> TRUE, event |-> text[1], hasContent |-> FALSE, isString |-> FALSE,
          content |-> <<>>]
    ELSE [ok |-> FALSE, event |-> "", hasContent |-> FALSE, isString |-> FALSE,
          content |-> <<>>]

\* typeof payload.content === 'string' (line 104), and a test that takes
\* any payload.
AnyContent(payload) == TRUE

StringContent(payload) == payload.hasContent /\ payload.isString

\* What a frame is on the wire (section 6 of the specification), read off
\* the same first data line: used by the properties, not by the program.
FrameClass(frame) ==
    LET dataLine == FindDataLine(SplitLines(frame)) IN
    IF dataLine = None THEN "nodata"
    ELSE LET payload == JSONparse(StripDataPrefix(dataLine[1])) IN
         IF ~payload.ok THEN "unparseable"
         ELSE IF payload.event \notin {"chunk", "done", "error"} THEN "unknown-event"
         ELSE IF payload.event = "chunk" /\ ~(payload.hasContent /\ payload.isString)
              THEN "chunk-nocontent"
         ELSE payload.event

FrameContent(frame) ==
    LET dataLine == FindDataLine(SplitLines(frame)) IN
    IF dataLine = None THEN <<>>
    ELSE JSONparse(StripDataPrefix(dataLine[1])).content

\* Whether the payload of the frame has a content field at all.
FrameHasContent(frame) ==
    LET dataLine == FindDataLine(SplitLines(frame)) IN
    dataLine # None /\ JSONparse(StripDataPrefix(dataLine[1])).hasContent

\* The catch of lines 111-113: every value thrown inside the try is an
\* Error (SyntaxError of JSON.parse, Error of line 107), so it is rethrown
\* unchanged.
\* The same with every thrown value replaced by the generic Error.
RethrowGeneric(isError, message) == UnexpectedPayload

Rethrow(isError, message) == IF isError THEN message ELSE UnexpectedPayload

\* processEvent(chunk, appendChunk): what the call does.
\*   kind "false": returns false, calls nothing
\*   kind "append": calls appendChunk(content), returns false
\*   kind "true": returns true
\*   kind "throw": throws an Error with that message
processEvent(chunk) ==
    LET dataLine == FindDataLine(SplitLines(chunk)) IN
    IF dataLine = None THEN [kind |-> "false", content |-> <<>>, message |-> <<>>]
    ELSE LET payload == JSONparse(StripDataPrefix(dataLine[1])) IN
         IF ~payload.ok
         THEN [kind |-> "throw", content |-> <<>>,
               message |-> Rethrow(TRUE, SyntaxErrorMessage)]
         ELSE IF payload.event = "chunk" /\ StringContent(payload)
         THEN [kind |-> "append", content |-> payload.content, message |-> <<>>]
         ELSE IF payload.event = "error"
         THEN [kind |-> "throw", content |-> <<>>,
               message |-> Rethrow(TRUE, IF payload.content # <<>>
                                         THEN payload.content
                                         ELSE AssistantIssue)]
         ELSE IF payload.event = "done"
         THEN [kind |-> "true", content |-> <<>>, message |-> <<>>]
         ELSE [kind |-> "false", content |-> <<>>, message |-> <<>>]

\* --------------------------------------------------- appendChunk (139-147)
\* appendChunk, and the same writing the value over the content.
appendChunkReplaces(current, id, value) ==
    [i \in 1..Len(current) |->
        IF current[i].id = id
        THEN [current[i] EXCEPT !.content = value]
        ELSE current[i]]

\* The same matching the messages on their role instead of their id.
appendChunkByRole(current, id, value) ==
    [i \in 1..Len(current) |->
        IF current[i].role = "assistant"
        THEN [current[i] EXCEPT !.content = current[i].content \o value]
        ELSE current[i]]

appendChunk(current, id, value) ==
    [i \in 1..Len(current) |->
        IF current[i].id = id
        THEN [current[i] EXCEPT !.content = current[i].content \o value]
        ELSE current[i]]

RECURSIVE appendAll(_, _, _)
appendAll(current, id, values) ==
    IF values = <<>> THEN current
    ELSE appendAll(appendChunk(current, id, Head(values)), id, Tail(values))

\* ------------------------------------- the body of the read loop (178-196)
\* The for loop of lines 184-188 (and the call of line 191): the segments in
\* order until one throws.  acc.events records each call (the segment it
\* was given, what that frame is, what the call did), acc.doneSignal is the
\* local of line 175, acc.thrown the message of the Error thrown.
ProcessSegment(segment, r, acc) ==
    [events |-> Append(acc.events,
                       [text |-> segment, frame |-> FrameClass(segment),
                        kind |-> r.kind, content |-> r.content]),
     doneSignal |-> acc.doneSignal \/ r.kind = "true",
     thrown |-> IF r.kind = "throw" THEN Some(r.message) ELSE None]

\* The same loop taking the segments from the last to the first.
RECURSIVE ProcessSegmentsLastFirst(_, _)
ProcessSegmentsLastFirst(segments, acc) ==
    IF segments = <<>> \/ acc.thrown # None THEN acc
    ELSE CHOOSE result \in
            {ProcessSegmentsLastFirst(Front(segments), next) :
                next \in {ProcessSegment(Last(segments), r, acc) :
                             r \in {processEvent(Last(segments))}}} : TRUE

RECURSIVE ProcessSegments(_, _)
ProcessSegments(segments, acc) ==
    IF segments = <<>> \/ acc.thrown # None THEN acc
    ELSE CHOOSE result \in
            {ProcessSegments(Tail(segments), next) :
                next \in {ProcessSegment(Head(segments), r, acc) :
                             r \in {processEvent(Head(segments))}}} : TRUE

\* One iteration: reader.read() gave { value, done }.
\* Lines 190-196: at the end of the body the carryover is interpreted if it
\* is not blank, and cleared.
\* The same with the carryover forgotten between reads.
LoopEndDropsCarry(pending, segments, r1, done) ==
    CHOOSE it \in
        {[pending |-> pending,
          buffer |-> <<>>,
          segments |-> segments,
          events |-> r2.events,
          doneSignal |-> r2.doneSignal,
          thrown |-> r2.thrown] :
            r2 \in {IF done /\ r1.thrown = None /\ Trim(Last(segments)) # <<>>
                    THEN ProcessSegments(<<Last(segments)>>, r1)
                    ELSE r1}} : TRUE

\* The same without lines 191-193: the carryover is cleared at the end of the
\* stream and never interpreted.
LoopEndIgnoresCarry(pending, segments, r1, done) ==
    [pending |-> pending,
     buffer |-> IF done THEN <<>> ELSE Last(segments),
     segments |-> segments,
     events |-> r1.events,
     doneSignal |-> r1.doneSignal,
     thrown |-> r1.thrown]

LoopEnd(pending, segments, r1, done) ==
    CHOOSE it \in
        {[pending |-> pending,
          buffer |-> IF done THEN <<>> ELSE Last(segments),
          segments |-> segments,
          events |-> r2.events,
          doneSignal |-> r2.doneSignal,
          thrown |-> r2.thrown] :
            r2 \in {IF done /\ r1.thrown = None /\ Trim(Last(segments)) # <<>>
                    THEN ProcessSegments(<<Last(segments)>>, r1)
                    ELSE r1}} : TRUE

\* Lines 181-188: split, keep the last segment, interpret the others.
LoopSegments(pending, segments, done) ==
    CHOOSE it \in
        {LoopEnd(pending, segments, r1, done) :
            r1 \in {ProcessSegments(Front(segments),
                        [events |-> <<>>, doneSignal |-> FALSE, thrown |-> None])}} :
        TRUE

\* Line 179: buffer += decoder.decode(...).
LoopDecoded(dec, buf, done) ==
    CHOOSE it \in
        {LoopSegments(dec.pending, segments, done) :
            segments \in {Split(buf \o dec.text)}} : TRUE

LoopBody(pending, buf, value, done) ==
    CHOOSE it \in
        {LoopDecoded(dec, buf, done) : dec \in {Decode(pending, value, ~done)}} : TRUE

\* The contents handed to appendChunk by a list of processEvent calls.
RECURSIVE AppliedContents(_)
AppliedContents(events) ==
    IF events = <<>> THEN <<>>
    ELSE (IF Head(events).kind = "append" THEN <<Head(events).content>> ELSE <<>>)
         \o AppliedContents(Tail(events))

\* ------------------------------------------------------------ environment
\* What the user may type (line 269).
Inputs == {<<>>, <<SP>>, <<SP, "h", SP>>}

\* The frames a backend may send, as bytes.
Catalog ==
    { <<DataPrefix, SP, "chunk:", "a">>,
      <<DataPrefix, "chunk:", LeadByte, ContinuationByte>>,
      <<DataPrefix, "done">>,
      <<DataPrefix, "error:", "x">>,
      <<DataPrefix, "error">>,
      <<DataPrefix, "error:">>,
      <<DataPrefix, "error:", "Generation cancelled.">>,
      <<DataPrefix, "ping">>,
      <<DataPrefix, "chunk">>,
      <<DataPrefix, "chunk#", "5">>,
      <<":">>,
      <<":", NL, DataPrefix, "{">> }

Delimiter == <<NL, NL>>

\* A response body: frames each followed by the blank line, the last one
\* with or without it.
RECURSIVE Serialize(_, _)
Serialize(fs, terminated) ==
    IF fs = <<>> THEN <<>>
    ELSE IF Len(fs) = 1 THEN Head(fs) \o (IF terminated THEN Delimiter ELSE <<>>)
    ELSE Head(fs) \o Delimiter \o Serialize(Tail(fs), terminated)

Bodies(n) ==
    {Serialize(fs, t) : fs \in [1..n -> Catalog], t \in BOOLEAN}

\* ---------------------------------------------------------- proxy handler
\* The two handlers of the repository: src/unnamed/part_000 (lines 1-29) and
\* src/react-app/vite.config.ts (lines 23-47).
Handlers == {"part_000", "vite.config.ts"}

\* res.setHeader(name, value): headers is a set of <<name, value>>.
setHeader(headers, name, value) ==
    {h \in headers : h[1] # name} \cup {<<name, value>>}

\* The res.setHeader calls before the test of response.body: lines 14-16 of
\* part_000, line 35 of vite.config.ts.
StreamHeaders(h, headers) ==
    IF h = "part_000"
    THEN setHeader(setHeader(setHeader(headers,
             "Content-Type", "text/event-stream"),
             "Cache-Control", "no-cache, no-transform"),
             "Connection", "keep-alive")
    ELSE setHeader(headers, "Content-Type", "text/event-stream")

\* res.status(code).json(payload): the status, the JSON body with its
\* content type, and the end of the response.
json(res, code, payload) ==
    [res EXCEPT !.status = code,
                !.headers = setHeader(@, "Content-Type", "application/json"),
                !.json = Some(payload),
                !.ended = TRUE]

\* The error payloads: line 19 of part_000 and line 38 of vite.config.ts,
\* lines 27 and 45.
NoBodyPayload(h) ==
    IF h = "part_000" THEN "Backend returned no body"
    ELSE "Backend did not return a body"

ProxyFailedPayload == "Proxy failed"

NoResponse ==
    [status |-> 200, headers |-> {}, json |-> None, sent |-> <<>>, ended |-> FALSE]

NoUpstream == [kind |-> "none", ok |-> FALSE, bytes |-> <<>>, pipe |-> FALSE]

ProxyIdle ==
    [pc |-> "idle", handler |-> "none", method |-> "none",
     upstream |-> NoUpstream, left |-> <<>>, res |-> NoResponse]

\* The bodies the upstream may stream.
RelayBytes == {NL, "a"}

RelayBodies == UNION {[1..n -> RelayBytes] : n \in 0..MaxRelay}

\* A request reaches one of the handlers, which awaits fetch (lines 5, 27).
ProxyRequest ==
    /\ proxy.pc = "idle"
    /\ \E h \in Handlers, method \in {"POST", "GET"} :
          proxy' = [proxy EXCEPT !.pc = "fetch", !.handler = h, !.method = method]
    /\ UNCHANGED clientVars

\* fetch rejects: the catch of lines 25-28, 43-46.
ProxyFetchThrows ==
    /\ proxy.pc = "fetch"
    /\ proxy' = [proxy EXCEPT
                    !.pc = "ended",
                    !.upstream = [NoUpstream EXCEPT !.kind = "throws"],
                    !.res = json(proxy.res, 500, ProxyFailedPayload)]
    /\ UNCHANGED clientVars

\* fetch resolves with a response without body: the headers are set, then
\* lines 18-21, 37-40.
ProxyFetchNoBody ==
    /\ proxy.pc = "fetch"
    /\ \E ok \in BOOLEAN :
          proxy' = [proxy EXCEPT
                       !.pc = "ended",
                       !.upstream = [NoUpstream EXCEPT !.kind = "nobody", !.ok = ok],
                       !.res = json([proxy.res EXCEPT
                                        !.headers = StreamHeaders(proxy.handler, @)],
                                    502, NoBodyPayload(proxy.handler))]
    /\ UNCHANGED clientVars

\* fetch resolves with a body: the headers are set and response.body.pipe(res)
\* is called (lines 24, 42).  The body of a node-fetch response is a Node
\* stream and has pipe; the body of the response of the global fetch is a
\* web ReadableStream and has none, so that the call throws a TypeError,
\* which the catch turns into the 500 response.
ProxyFetchBody ==
    /\ proxy.pc = "fetch"
    /\ \E ok \in BOOLEAN, bytes \in RelayBodies, pipe \in BOOLEAN :
          LET up == [kind |-> "body", ok |-> ok, bytes |-> bytes, pipe |-> pipe]
              res == [proxy.res EXCEPT !.headers = StreamHeaders(proxy.handler, @)]
          IN proxy' = IF pipe
                      THEN [proxy EXCEPT !.pc = "piping", !.upstream = up,
                                         !.left = bytes, !.res = res]
                      ELSE [proxy EXCEPT !.pc = "ended", !.upstream = up,
                                         !.res = json(res, 500, ProxyFailedPayload)]
    /\ UNCHANGED clientVars

\* pipe relays the next bytes of the upstream body.
ProxyPipe ==
    /\ proxy.pc = "piping"
    /\ proxy.left # <<>>
    /\ \E k \in 1..Len(proxy.left) :
          proxy' = [proxy EXCEPT
                       !.left = SubSeq(@, k + 1, Len(@)),
                       !.res = [@ EXCEPT !.sent = @ \o SubSeq(proxy.left, 1, k)]]
    /\ UNCHANGED clientVars

\* The upstream body ends, and pipe ends the response.
ProxyPipeEnd ==
    /\ proxy.pc = "piping"
    /\ proxy.left = <<>>
    /\ proxy' = [proxy EXCEPT !.pc = "ended", !.res = [@ EXCEPT !.ended = TRUE]]
    /\ UNCHANGED clientVars

NextProxy ==
    \/ ProxyRequest
    \/ ProxyFetchThrows
    \/ ProxyFetchNoBody
    \/ ProxyFetchBody
    \/ ProxyPipe
    \/ ProxyPipeEnd

\* ------------------------------------------------------------------ state
NoCuts == [empty |-> FALSE, delimiter |-> FALSE, character |-> FALSE]

initialMessages ==
    <<[id |-> 0, role |-> "assistant", content |-> <<"welcome">>,
       skipContext |-> TRUE]>>

Init ==
    /\ messages = initialMessages
    /\ inputValue = <<>>
    /\ isStreaming = FALSE
    /\ errorMessage = None
    /\ abortRef = 0
    /\ pc = "idle"
    /\ abortController = 0
    /\ abortedSignals = {}
    /\ assistantId = 0
    /\ reader = "null"
    /\ decoderPending = <<>>
    /\ buffer = <<>>
    /\ wire = <<>>
    /\ stream = <<>>
    /\ trace = <<>>
    /\ exitPath = "none"
    /\ requestBody = <<>>
    /\ nSessions = 0
    /\ nFetches = 0
    /\ nControllers = 0
    /\ nReleases = 0
    /\ rejected = "no"
    /\ fed = NoCuts
    /\ framesLeft = MaxFrames
    /\ frames = <<>>
    /\ proxy = ProxyIdle

\* ---------------------------------------------------------------- actions
\* onChange of the textarea (line 269), which is disabled while streaming
\* (line 274).
OnChange(value) ==
    /\ ~isStreaming
    /\ inputValue' = value
    /\ UNCHANGED <<messages, isStreaming, errorMessage, abortRef, pc,
                   abortController, abortedSignals, assistantId, reader,
                   decoderPending, buffer, wire, stream, trace, exitPath,
                   requestBody, nSessions, nFetches, nControllers, nReleases,
                   rejected, framesLeft, frames, fed, proxy>>

\* The early return of line 120, and a handler without it.
SubmitNeverRejected(input, streaming) == FALSE

SubmitRejected(input, streaming) == Trim(input) = <<>> \/ streaming

\* payload.messages (lines 149-153), from the messages of the render the
\* handler belongs to.
\* The same without the filter of line 151.
RequestMessagesUnfiltered(current, userMessage) ==
    LET all == Append(current, userMessage)
    IN [i \in 1..Len(all) |-> [role |-> all[i].role, content |-> all[i].content]]

RequestMessages(current, userMessage) ==
    LET all == Append(current, userMessage)
        kept == SelectSeq(all, LAMBDA m : ~m.skipContext)
    IN [i \in 1..Len(kept) |-> [role |-> kept[i].role, content |-> kept[i].content]]

\* handleSubmit up to the await of line 161.  The controllers of the earlier
\* sessions are locals of handlers that have returned: nothing refers to
\* them any more, and their signals leave the state.
HandleSubmit ==
    IF SubmitRejected(inputValue, isStreaming)
    THEN /\ rejected' = IF isStreaming THEN "in-flight" ELSE "empty-input"
         /\ UNCHANGED <<messages, inputValue, isStreaming, errorMessage, abortRef,
                        pc, abortController, abortedSignals, assistantId, reader,
                        decoderPending, buffer, wire, stream, trace, exitPath,
                        requestBody, nSessions, nFetches, nControllers, nReleases,
                        framesLeft, frames, fed, proxy>>
    ELSE /\ nSessions < MaxSessions
         /\ LET userMessage == [id |-> 2 * nSessions + 1, role |-> "user",
                                content |-> Trim(inputValue), skipContext |-> FALSE]
                assistantMessage == [id |-> 2 * nSessions + 2, role |-> "assistant",
                                     content |-> <<>>, skipContext |-> FALSE]
            IN /\ messages' = messages \o <<userMessage, assistantMessage>>
               /\ assistantId' = assistantMessage.id
               /\ requestBody' = RequestMessages(messages, userMessage)
         /\ inputValue' = <<>>
         /\ errorMessage' = None
         /\ isStreaming' = TRUE
         /\ nControllers' = nControllers + 1
         /\ abortController' = nControllers + 1
         /\ abortRef' = nControllers + 1
         /\ reader' = "null"
         /\ nFetches' = nFetches + 1
         /\ nSessions' = nSessions + 1
         /\ pc' = "fetch"
         /\ stream' = <<>>
         /\ trace' = <<>>
         /\ exitPath' = "none"
         /\ nReleases' = 0
         /\ rejected' = "no"
         /\ abortedSignals' = {}
         /\ UNCHANGED <<decoderPending, buffer, wire, framesLeft, frames, fed, proxy>>

\* The catch of lines 198-203, and the same without the AbortError test.
CatchMessageIgnoresAbort(name, message) == message

CatchMessage(name, message) ==
    IF name = "AbortError" THEN GenerationCancelled ELSE message

\* reader?.releaseLock() (line 205), and a finally that leaves the lock.
ReleaseSkipped(r) == r

Release(r) == IF r = "locked" THEN "released" ELSE r

\* streamAbortController.current = null (line 206), and a finally that
\* leaves the reference.
KeepRef(ref) == ref

ClearRef(ref) == 0

\* The finally of lines 204-208, after the catch when something was thrown:
\* thrown is <<>> or <<[name, message]>>.
Finish(path, thrown, readerNow) ==
    /\ errorMessage' = IF thrown = None THEN errorMessage
                       ELSE Some(CatchMessage(thrown[1].name, thrown[1].message))
    /\ reader' = Release(readerNow)
    /\ nReleases' = IF Release(readerNow) # readerNow THEN nReleases + 1 ELSE nReleases
    /\ abortRef' = ClearRef(abortRef)
    /\ isStreaming' = FALSE
    /\ pc' = "idle"
    /\ exitPath' = path
    /\ abortController' = 0
    /\ decoderPending' = <<>>
    /\ buffer' = <<>>
    /\ wire' = <<>>
    /\ rejected' = "no"

\* handleStop (lines 211-214).
HandleStop ==
    /\ abortedSignals' = IF abortRef # 0 THEN abortedSignals \cup {abortRef}
                         ELSE abortedSignals
    /\ abortRef' = 0
    /\ UNCHANGED <<messages, inputValue, isStreaming, errorMessage, pc,
                   abortController, assistantId, reader, decoderPending, buffer,
                   wire, stream, trace, exitPath, requestBody, nSessions,
                   nFetches, nControllers, nReleases, rejected, framesLeft, frames,
                   fed, proxy>>

Aborted == abortController \in abortedSignals

\* The await of line 161 or of line 178 rejects with an AbortError because
\* the signal of the session was aborted.
AbortRejects ==
    /\ pc \in {"fetch", "read"}
    /\ Aborted
    /\ Finish("abort", Some([name |-> "AbortError", message |-> <<"aborted">>]), reader)
    /\ UNCHANGED <<messages, inputValue, abortedSignals, assistantId, stream,
                   trace, requestBody, nSessions, nFetches, nControllers,
                   framesLeft, frames, fed, proxy>>

\* fetch rejects: the connection could not be made (line 161).
FetchRejects ==
    /\ pc = "fetch"
    /\ ~Aborted
    /\ \E m \in FetchFailedMessages :
          Finish("fetch-rejected", Some([name |-> "TypeError", message |-> m]), reader)
    /\ UNCHANGED <<messages, inputValue, abortedSignals, assistantId, stream,
                   trace, requestBody, nSessions, nFetches, nControllers,
                   framesLeft, frames, fed, proxy>>

\* fetch resolves with a response that fails the test of line 168.
FetchResolvesBad ==
    /\ pc = "fetch"
    /\ ~Aborted
    /\ \E ok \in BOOLEAN, hasBody \in BOOLEAN :
          /\ ~ok \/ ~hasBody
          /\ Finish(IF ~ok THEN "bad-status" ELSE "no-body",
                    Some([name |-> "Error", message |-> UnableToConnect]), reader)
    /\ UNCHANGED <<messages, inputValue, abortedSignals, assistantId, stream,
                   trace, requestBody, nSessions, nFetches, nControllers,
                   framesLeft, frames, fed, proxy>>

\* fetch resolves with a streaming body; lines 172-175.
FetchResolves ==
    /\ pc = "fetch"
    /\ ~Aborted
    /\ \E n \in 0..framesLeft :
          /\ framesLeft' = framesLeft - n
          /\ \E body \in Bodies(n) :
                /\ wire' = body
                /\ stream' = body
    /\ reader' = "locked"
    /\ decoderPending' = <<>>
    /\ buffer' = <<>>
    /\ pc' = "read"
    /\ UNCHANGED <<messages, inputValue, isStreaming, errorMessage, abortRef,
                   abortController, abortedSignals, assistantId, trace, exitPath,
                   requestBody, nSessions, nFetches, nControllers, nReleases,
                   frames, fed, rejected, proxy>>

\* Leaving the loop at the break of line 195 or by its condition throws
\* nothing, whether a done frame was seen or the body just ended; and a loop
\* that takes the end of the body without a done frame for a failure.
LoopExitRequiresDone(doneSignal) ==
    IF doneSignal THEN None
    ELSE Some([name |-> "Error", message |-> <<"Stream ended early.">>])

LoopExitThrown(doneSignal) == None

\* What follows one reader.read() (lines 178-197): the iteration, then
\* either the next await, or the catch and the finally, or the finally alone.
AfterIteration(it, done, rest) ==
    /\ messages' = appendAll(messages, assistantId, AppliedContents(it.events))
    /\ trace' = trace \o it.events
    /\ IF it.thrown # None
       THEN Finish(IF Last(it.events).frame = "error" THEN "upstream-error"
                   ELSE "parse-error",
                   Some([name |-> "Error", message |-> it.thrown[1]]), reader)
       ELSE IF done \/ it.doneSignal
       THEN Finish(IF it.doneSignal THEN "done" ELSE "end-of-stream",
                   LoopExitThrown(it.doneSignal), reader)
       ELSE /\ decoderPending' = it.pending
            /\ buffer' = it.buffer
            /\ wire' = rest
            /\ UNCHANGED <<errorMessage, reader, nReleases, abortRef, isStreaming,
                           pc, exitPath, abortController, rejected>>
    /\ UNCHANGED <<inputValue, abortedSignals, assistantId, stream, requestBody,
                   nSessions, nFetches, nControllers, framesLeft, frames, fed, proxy>>

AfterRead(value, done, rest) ==
    \E it \in {LoopBody(decoderPending, buffer, value, done)} :
        AfterIteration(it, done, rest)

\* reader.read() resolves with the next k bytes of the body (k may be 0).
ReadChunk ==
    /\ pc = "read"
    /\ ~Aborted
    /\ \E k \in 0..Len(wire) :
          AfterRead(SubSeq(wire, 1, k), FALSE, SubSeq(wire, k + 1, Len(wire)))

\* reader.read() resolves with done: the body has ended.
ReadEnd ==
    /\ pc = "read"
    /\ ~Aborted
    /\ wire = <<>>
    /\ AfterRead(<<>>, TRUE, <<>>)

\* reader.read() rejects: the connection broke.
ReadFails ==
    /\ pc = "read"
    /\ ~Aborted
    /\ Finish("read-failed", Some([name |-> "TypeError", message |-> ReadFailedMessage]),
              reader)
    /\ UNCHANGED <<messages, inputValue, abortedSignals, assistantId, stream,
                   trace, requestBody, nSessions, nFetches, nControllers,
                   framesLeft, frames, fed, proxy>>

Transport ==
    \/ AbortRejects
    \/ FetchRejects
    \/ FetchResolvesBad
    \/ FetchResolves
    \/ ReadChunk
    \/ ReadEnd
    \/ ReadFails

Next ==
    \/ \E value \in Inputs : OnChange(value)
    \/ HandleSubmit
    \/ HandleStop
    \/ Transport

Spec == Init /\ [][Next]_vars

\* The transport settles every pending fetch() and read(), and the event
\* loop then runs the continuation of the await.
FairSpec == Spec /\ WF_vars(Transport)

\* The proxy handler on its own, one request.
SpecProxy == Init /\ [][NextProxy]_vars

\* ------------------------------------------------ frame reassembly alone
\* The same loop body fed a body that carries no data line, so that every
\* frame is handed to processEvent and none ends the loop: frames is the
\* list of the segments processEvent was called with.
FrameBytes == {NL, "a", LeadByte, ContinuationByte}

ByteStrings == UNION {[1..n -> FrameBytes] : n \in 0..MaxBytes}

RECURSIVE Texts(_)
Texts(events) ==
    IF events = <<>> THEN <<>> ELSE <<Head(events).text>> \o Texts(Tail(events))

InitFrames ==
    /\ stream \in ByteStrings
    /\ wire = stream
    /\ pc = "read"
    /\ reader = "locked"
    /\ isStreaming = TRUE
    /\ messages = initialMessages \o
          <<[id |-> 1, role |-> "user", content |-> <<"h">>, skipContext |-> FALSE],
            [id |-> 2, role |-> "assistant", content |-> <<>>, skipContext |-> FALSE]>>
    /\ inputValue = <<>>
    /\ errorMessage = None
    /\ abortRef = 1
    /\ abortController = 1
    /\ abortedSignals = {}
    /\ assistantId = 2
    /\ decoderPending = <<>>
    /\ buffer = <<>>
    /\ trace = <<>>
    /\ exitPath = "none"
    /\ requestBody = <<[role |-> "user", content |-> <<"h">>]>>
    /\ nSessions = 1
    /\ nFetches = 1
    /\ nControllers = 1
    /\ nReleases = 0
    /\ rejected = "no"
    /\ fed = NoCuts
    /\ framesLeft = 0
    /\ frames = <<>>
    /\ proxy = ProxyIdle

FedIteration(it, done, rest) ==
    /\ frames' = frames \o Texts(it.events)
    /\ decoderPending' = it.pending
    /\ buffer' = it.buffer
    /\ wire' = rest
    /\ pc' = IF done THEN "idle" ELSE "read"
    /\ reader' = IF done THEN Release(reader) ELSE reader
    /\ nReleases' = IF done THEN nReleases + 1 ELSE nReleases
    /\ abortRef' = IF done THEN 0 ELSE abortRef
    /\ abortController' = IF done THEN 0 ELSE abortController
    /\ isStreaming' = ~done
    /\ exitPath' = IF done THEN "end-of-stream" ELSE exitPath
    /\ UNCHANGED <<messages, inputValue, errorMessage, abortedSignals, assistantId,
                   stream, trace, requestBody, nSessions, nFetches, nControllers,
                   rejected, framesLeft, proxy>>

\* read() gives the next k bytes; fed records where the cut fell.
FeedChunk ==
    /\ pc = "read"
    /\ \E k \in 0..Len(wire) :
          /\ k = 0 => ~fed.empty
          /\ fed' = [empty |-> fed.empty \/ k = 0,
                     delimiter |-> fed.delimiter \/
                        (0 < k /\ k < Len(wire) /\ wire[k] = NL /\ wire[k + 1] = NL),
                     character |-> fed.character \/
                        (0 < k /\ k < Len(wire) /\ wire[k] = LeadByte
                           /\ wire[k + 1] = ContinuationByte)]
          /\ FedIteration(LoopBody(decoderPending, buffer, SubSeq(wire, 1, k), FALSE),
                          FALSE, SubSeq(wire, k + 1, Len(wire)))

\* read() gives done.
FeedEnd ==
    /\ pc = "read"
    /\ wire = <<>>
    /\ fed' = fed
    /\ FedIteration(LoopBody(decoderPending, buffer, <<>>, TRUE), TRUE, <<>>)

NextFrames == FeedChunk \/ FeedEnd

SpecFrames == InitFrames /\ [][NextFrames]_vars

\* The frames of a body delivered as one chunk and then the end.
OneChunkThen(first) ==
    Texts(first.events) \o
    Texts(LoopBody(first.pending, first.buffer, <<>>, TRUE).events)

OneChunkFrames(body) == OneChunkThen(LoopBody(<<>>, <<>>, body, FALSE))

\* ------------------------------------------------- what the claims speak of
SessionEnded == pc = "idle" /\ exitPath # "none"

\* The contents appendChunk was called with in this session, in order.
Applied == AppliedContents(trace)

AssistantMessages == SelectSeq(messages, LAMBDA m : m.id = assistantId)

AssistantContent == AssistantMessages[1].content

\* The session ended on what it read, not on a cancellation or a broken read.
ReadToItsEnd == exitPath \in {"done", "end-of-stream", "upstream-error", "parse-error"}

FailedOrCancelled ==
    exitPath \in {"upstream-error", "parse-error", "read-failed", "fetch-rejected",
                  "bad-status", "no-body", "abort"}

\* The frames of a whole response body (section 4.1 of the specification).
BodySegments(segs) ==
    Front(segs) \o (IF Trim(Last(segs)) # <<>> THEN <<Last(segs)>> ELSE <<>>)

StreamFrames(body) == BodySegments(Split(Decode(<<>>, body, FALSE).text))

\* The content fields of the chunk events of a list of frames, in order.
RECURSIVE ChunkContents(_)
ChunkContents(fs) ==
    IF fs = <<>> THEN <<>>
    ELSE (IF FrameClass(Head(fs)) = "chunk" THEN <<FrameContent(Head(fs))>> ELSE <<>>)
         \o ChunkContents(Tail(fs))

\* No chunk event follows a done event, an error event or a frame whose
\* payload does not parse.
NoChunkAfterStopIn(fs) ==
    \A i, j \in 1..Len(fs) :
        (i < j /\ FrameClass(fs[i]) \in {"done", "error", "unparseable"})
            => FrameClass(fs[j]) # "chunk"

\* ------------------------------------------------------------------ claims

\* C1: once a frame with event done or error has been processed, no later
\* chunk frame changes the content of the assistant message.
C1_NoChunkAfterDone ==
    \A i, j \in 1..Len(trace) :
        (i < j /\ trace[i].frame \in {"done", "error"}) => trace[j].kind # "append"

\* C2: the frames after the frame that ends the session are ignored: a
\* session in which a done frame has been processed records no error
\* message, and ends Completed.
C2_DoneIsFinal ==
    (\E i \in 1..Len(trace) : trace[i].frame = "done")
        => (SessionEnded /\ exitPath = "done" /\ errorMessage = None)

\* C3: a frame whose payload does not parse, or whose event is of no known
\* kind, ends the session in Failed with an error message recorded; it is
\* never skipped.
C3_ViolationFails ==
    \A i \in 1..Len(trace) :
        trace[i].frame \in {"unparseable", "unknown-event"}
            => (i = Len(trace) /\ SessionEnded /\ exitPath = "parse-error"
                /\ errorMessage # None)

\* C4: when a session has failed or was cancelled after N chunks were
\* applied, its assistant message is still in the transcript and its content
\* is those N contents in order.
C4_PartialContentKept ==
    (SessionEnded /\ FailedOrCancelled)
        => (Len(AssistantMessages) = 1 /\ AssistantContent = Flatten(Applied))

C4_Witness ==
    /\ SessionEnded
    /\ exitPath = "abort"
    /\ Len(Applied) = 2
    /\ Applied[1] # Applied[2]
    /\ AssistantContent = <<"a", DecodedChar>>

\* C5 (as stated): for every stream and every way to cut it into reads, what
\* was appended is the content of all the chunk events of the stream.
C5_AllChunksOfStream ==
    (SessionEnded /\ ReadToItsEnd)
        => Flatten(Applied) = Flatten(ChunkContents(StreamFrames(stream)))

\* C5 (amended): the same for every stream in which no chunk event follows
\* a done event, an error event or a frame whose payload does not parse.
C5_AllChunksBeforeStop ==
    (SessionEnded /\ ReadToItsEnd /\ NoChunkAfterStopIn(StreamFrames(stream)))
        => /\ Flatten(Applied) = Flatten(ChunkContents(StreamFrames(stream)))
           /\ AssistantContent = Flatten(Applied)

C5_Witness ==
    /\ SessionEnded
    /\ exitPath = "end-of-stream"
    /\ Applied = <<<<DecodedChar>>, <<"a">>>>
    /\ NoChunkAfterStopIn(StreamFrames(stream))

\* C6: the frames of a body do not depend on how it is cut into chunks: they
\* are those of the body delivered as one chunk.
C6_FramesIgnoreCuts == (pc = "idle") => (frames = OneChunkFrames(stream))

C6_Witness ==
    /\ pc = "idle"
    /\ fed.empty /\ fed.delimiter /\ fed.character
    /\ Len(frames) = 2
    /\ DecodedChar \in {frames[1][i] : i \in 1..Len(frames[1])}

\* C7: while a session is in flight nothing starts a fetch, creates an
\* AbortController or appends a message.
C7_OneSessionInFlight ==
    [][(pc # "idle") =>
          /\ nFetches' = nFetches
          /\ nControllers' = nControllers
          /\ nSessions' = nSessions
          /\ Len(messages') = Len(messages)]_vars

C7_Witness == pc = "read" /\ rejected = "in-flight" /\ wire # <<>>

\* The controller of the latest session has been aborted by handleStop.
StoppedInFlight == nControllers \in abortedSignals

\* C8 (as stated): a session stopped in flight ends with 'Generation
\* cancelled.' and its content kept, and no other ending records that
\* message.
C8_CancelledIsDistinct ==
    SessionEnded =>
        /\ StoppedInFlight =>
              /\ exitPath = "abort"
              /\ errorMessage = Some(GenerationCancelled)
              /\ AssistantContent = Flatten(Applied)
        /\ exitPath # "abort" => errorMessage # Some(GenerationCancelled)

\* C8 (amended): the same, except that an upstream error frame whose content
\* is that very text records it too.
C8_CancelledIsDistinctButVerbatim ==
    SessionEnded =>
        /\ StoppedInFlight =>
              /\ exitPath = "abort"
              /\ errorMessage = Some(GenerationCancelled)
              /\ AssistantContent = Flatten(Applied)
        /\ (exitPath # "abort" /\ errorMessage = Some(GenerationCancelled))
              => /\ exitPath = "upstream-error"
                 /\ FrameContent(Last(trace).text) = GenerationCancelled

C8_Witness ==
    /\ SessionEnded
    /\ StoppedInFlight
    /\ exitPath = "abort"
    /\ errorMessage = Some(GenerationCancelled)
    /\ AssistantContent = <<"a">>

\* C9: every session ends, whatever path it takes; when it has ended the
\* reader is released exactly once if it was acquired and never otherwise,
\* the abort handle is null and isStreaming is false, so that a new
\* submission is accepted.
C9_SessionsEndClean ==
    /\ (pc # "idle") ~> (pc = "idle")
    /\ [](pc = "idle" =>
            /\ ~isStreaming
            /\ abortRef = 0
            /\ reader \in {"null", "released"}
            /\ nReleases = (IF reader = "released" THEN 1 ELSE 0)
            /\ (exitPath \in {"fetch-rejected", "bad-status", "no-body"}
                   => reader = "null")
            /\ (exitPath \in {"done", "end-of-stream", "upstream-error",
                              "parse-error", "read-failed"}
                   => reader = "released")
            /\ (Trim(inputValue) # <<>> => ~SubmitRejected(inputValue, isStreaming)))

C9_Witness ==
    /\ nSessions = 2
    /\ SessionEnded
    /\ exitPath = "done"
    /\ reader = "released"
    /\ nReleases = 1
    /\ Len(messages) = 5

\* C10: every transport failure records 'Unable to connect to the
\* assistant.'.
C10_UnableToConnect ==
    (SessionEnded /\ exitPath \in {"fetch-rejected", "bad-status", "no-body"})
        => errorMessage = Some(UnableToConnect)

\* C11 (as stated): an error frame ends the session in Failed and nothing
\* after it is processed; the message recorded is the content of the frame
\* when the payload has a content field, and the default message when it
\* has none.
C11_ErrorContentVerbatim ==
    \A i \in 1..Len(trace) :
        trace[i].frame = "error"
            => /\ i = Len(trace)
               /\ SessionEnded
               /\ exitPath = "upstream-error"
               /\ errorMessage =
                      Some(IF FrameHasContent(trace[i].text)
                           THEN FrameContent(trace[i].text)
                           ELSE AssistantIssue)

\* C11 (amended): the same, with the content recorded when it is a string
\* that is not empty, and the default message when the content is absent or
\* the empty string.
C11_ErrorContentOrDefault ==
    \A i \in 1..Len(trace) :
        trace[i].frame = "error"
            => /\ i = Len(trace)
               /\ SessionEnded
               /\ exitPath = "upstream-error"
               /\ errorMessage =
                      Some(IF FrameContent(trace[i].text) # <<>>
                           THEN FrameContent(trace[i].text)
                           ELSE AssistantIssue)

C11_Witness ==
    /\ SessionEnded
    /\ Len(trace) = 2
    /\ trace[1].kind = "append"
    /\ trace[2].frame = "error"
    /\ errorMessage = Some(<<"x">>)
    /\ Len(StreamFrames(stream)) = 2

\* C12: the frames are interpreted in the order of the stream, one call of
\* processEvent per frame, and in every state in which the session is seen
\* ended (isStreaming false, or the error message set) the assistant message
\* holds the contents of all the chunks applied, in that order.
C12_AppliedInOrderAndVisible ==
    /\ nSessions > 0 =>
          /\ Len(trace) <= Len(StreamFrames(stream))
          /\ \A i \in 1..Len(trace) : trace[i].text = StreamFrames(stream)[i]
    /\ (nSessions > 0 /\ (~isStreaming \/ errorMessage # None))
          => /\ Len(AssistantMessages) = 1
             /\ AssistantContent = Flatten(Applied)

C12_Witness ==
    /\ ~isStreaming
    /\ errorMessage = Some(SyntaxErrorMessage)
    /\ Len(trace) = 2
    /\ trace[1].kind = "append"
    /\ trace[2].frame = "unparseable"
    /\ AssistantContent = <<DecodedChar>>

\* The frames that carry no event: no line beginning with data:, or event
\* chunk with the content absent or not a string.
NoEventClasses == {"nodata", "chunk-nocontent"}

\* C13: processEvent does nothing on a frame that carries no event (it
\* returns false, appends nothing, throws nothing); a session that has so
\* far read only such frames has an empty assistant message and no error
\* message, and is still streaming unless the stream ended, the read failed
\* or the user stopped it.
C13_NoEventFrames ==
    /\ \A i \in 1..Len(trace) :
          trace[i].frame \in NoEventClasses => trace[i].kind = "false"
    /\ (nSessions > 0 /\ \A i \in 1..Len(trace) : trace[i].frame \in NoEventClasses)
          => /\ AssistantContent = <<>>
             /\ exitPath \in {"none", "end-of-stream", "abort", "read-failed",
                              "fetch-rejected", "bad-status", "no-body"}
             /\ exitPath \in {"none", "end-of-stream"} => errorMessage = None
             /\ exitPath = "none" => (isStreaming /\ pc # "idle")

C13_Witness ==
    /\ pc = "read"
    /\ isStreaming
    /\ errorMessage = None
    /\ Len(trace) = 2
    /\ trace[1].frame = "nodata"
    /\ trace[2].frame = "chunk-nocontent"
    /\ FrameContent(trace[2].text) = <<"5">>
    /\ AssistantContent = <<>>

\* The step in which reader.read() gave done: the whole body had been read
\* and the session ends on something other than a stop or a broken read.
EndOfStreamStep ==
    /\ pc = "read"
    /\ wire = <<>>
    /\ pc' = "idle"
    /\ exitPath' \notin {"abort", "read-failed"}

\* The carryover at that point: the buffer, and U+FFFD for a lead byte the
\* decoder still held.
Carryover ==
    buffer \o (IF decoderPending # <<>> THEN <<ReplacementChar>> ELSE <<>>)

\* C14: at the end of the stream a carryover that is not blank is handed to
\* processEvent once, as one frame (a chunk frame is appended), a blank or
\* empty carryover is not interpreted, and in both cases the buffer is
\* cleared, the reader released and no further read made.
C14_CarryoverAtEnd ==
    [][EndOfStreamStep =>
          /\ IF Trim(Carryover) # <<>>
             THEN /\ Len(trace') = Len(trace) + 1
                  /\ SubSeq(trace', 1, Len(trace)) = trace
                  /\ Last(trace').text = Carryover
                  /\ messages' =
                        (IF FrameClass(Carryover) = "chunk"
                         THEN appendChunk(messages, assistantId, FrameContent(Carryover))
                         ELSE messages)
             ELSE /\ trace' = trace
                  /\ messages' = messages
                  /\ exitPath' = "end-of-stream"
          /\ buffer' = <<>>
          /\ decoderPending' = <<>>
          /\ reader' = "released"
          /\ ~isStreaming']_vars

C14_Witness ==
    /\ SessionEnded
    /\ exitPath = "end-of-stream"
    /\ Len(trace) = 2
    /\ Last(stream) = "a"
    /\ trace[1].frame = "nodata"
    /\ trace[2].kind = "append"
    /\ AssistantContent = <<"a">>

\* The role and content of the messages of a list that are not flagged
\* skipContext, in order.
InContext(ms) ==
    LET kept == SelectSeq(ms, LAMBDA m : ~m.skipContext)
    IN [i \in 1..Len(kept) |-> [role |-> kept[i].role, content |-> kept[i].content]]

\* C15: from the first accepted submission on, the request body of the
\* latest one is the role and content of every message of the transcript not
\* flagged skipContext, in transcript order, up to and including the new user
\* message: the welcome message is not in it, nor is the empty assistant
\* message of the new session.
C15_RequestBody ==
    nSessions > 0 =>
        /\ requestBody = InContext(Front(messages))
        /\ Len(requestBody) = 2 * nSessions - 1
        /\ Last(requestBody).role = "user"
        /\ \A i \in 1..Len(requestBody) :
              requestBody[i].content # initialMessages[1].content
        /\ \A i \in 1..Len(requestBody) :
              requestBody[i] = [role |-> messages[i + 1].role,
                                content |-> messages[i + 1].content]

C15_Witness ==
    /\ nSessions = 2
    /\ pc = "fetch"
    /\ errorMessage = None
    /\ Len(requestBody) = 3
    /\ requestBody[2] = [role |-> "assistant", content |-> <<"a">>]
    /\ Last(messages).content = <<>>

IsPrefix(s, t) == Len(s) <= Len(t) /\ SubSeq(t, 1, Len(s)) = s

\* C16: in every step the messages already in the transcript keep their
\* place, id and role; the content of a message changes only for the
\* assistant message of the session in flight, and only by extension; the
\* transcript grows only by an accepted submission (input not blank, no
\* session in flight), by one user message with the trimmed input and one
\* empty assistant message, both with new ids; a rejected submission leaves
\* the transcript as it is.
C16_AppendOnly ==
    [][/\ Len(messages') >= Len(messages)
       /\ \A i \in 1..Len(messages) :
             /\ messages'[i].id = messages[i].id
             /\ messages'[i].role = messages[i].role
             /\ messages'[i].skipContext = messages[i].skipContext
             /\ messages'[i].content # messages[i].content
                   => /\ isStreaming
                      /\ pc = "read"
                      /\ messages[i].id = assistantId
                      /\ messages[i].role = "assistant"
                      /\ IsPrefix(messages[i].content, messages'[i].content)
       /\ Len(messages') # Len(messages)
             => /\ ~isStreaming
                /\ Trim(inputValue) # <<>>
                /\ Len(messages') = Len(messages) + 2
                /\ messages'[Len(messages) + 1].role = "user"
                /\ messages'[Len(messages) + 1].content = Trim(inputValue)
                /\ messages'[Len(messages) + 2].role = "assistant"
                /\ messages'[Len(messages) + 2].content = <<>>
                /\ messages'[Len(messages) + 1].id # messages'[Len(messages) + 2].id
                /\ \A i \in 1..Len(messages), j \in {1, 2} :
                      messages[i].id # messages'[Len(messages) + j].id
       /\ (rejected' # "no" /\ rejected' # rejected) => messages' = messages]_vars

C16_Witness ==
    /\ nSessions = 2
    /\ pc = "read"
    /\ rejected = "in-flight"
    /\ Len(messages) = 5
    /\ messages[3].content = <<"a">>
    /\ messages[5].content = <<DecodedChar>>

\* The three headers of an event stream.
EventStreamHeaders ==
    {<<"Content-Type", "text/event-stream">>,
     <<"Cache-Control", "no-cache, no-transform">>,
     <<"Connection", "keep-alive">>}

\* C17: every request to the proxy handler ends in exactly one of three
\* ways: the upstream response had no body, and the response is 502 with a
\* JSON error payload and nothing piped; the upstream fetch threw, and the
\* response is 500 with a JSON error payload; otherwise the response carries
\* the three event-stream headers and the upstream body, unchanged.
C17_ProxyOutcomes ==
    proxy.pc = "ended" =>
        /\ proxy.res.ended
        /\ proxy.upstream.kind = "nobody"
              => /\ proxy.res.status = 502
                 /\ proxy.res.json # None
                 /\ proxy.res.sent = <<>>
        /\ proxy.upstream.kind = "throws"
              => /\ proxy.res.status = 500
                 /\ proxy.res.json # None
                 /\ proxy.res.sent = <<>>
        /\ proxy.upstream.kind = "body"
              => /\ proxy.res.status = 200
                 /\ proxy.res.json = None
                 /\ EventStreamHeaders \subseteq proxy.res.headers
                 /\ proxy.res.sent = proxy.upstream.bytes

\* C18: streamAbortController.current is null or the controller of the
\* session in flight, and not null only while isStreaming is true; a signal
\* is aborted only by a handleStop invoked while its session is in flight,
\* and it is the signal of that session: a handleStop with no session in
\* flight changes nothing, and a session never starts with its signal
\* aborted.
C18_AbortRefOfSessionInFlight ==
    /\ [](/\ abortRef \in {0, abortController}
          /\ abortRef # 0 => (isStreaming /\ pc # "idle" /\ abortRef = nControllers)
          /\ abortedSignals \subseteq {nControllers} \ {0})
    /\ [][/\ (abortedSignals' # abortedSignals /\ nSessions' = nSessions)
             => /\ pc # "idle"
                /\ isStreaming
                /\ abortRef = abortController
                /\ abortedSignals' = abortedSignals \cup {abortController}
                /\ abortRef' = 0
                /\ UNCHANGED <<messages, errorMessage, isStreaming, pc>>
          /\ nSessions' # nSessions
             => /\ abortRef' = nControllers'
                /\ abortController' = nControllers'
                /\ nControllers' = nControllers + 1
                /\ nControllers' \notin abortedSignals'
          /\ (pc = "idle" /\ abortedSignals' # abortedSignals)
             => nSessions' # nSessions]_vars

C18_Witness ==
    /\ nSessions = 2
    /\ pc = "read"
    /\ isStreaming
    /\ abortRef = 0
    /\ abortController = 2
    /\ abortedSignals = {2}
    /\ trace # <<>>

\* The session read its stream: it did not end on a stop, a broken read or
\* a failed connection.
StreamWasRead ==
    exitPath \notin {"abort", "read-failed", "fetch-rejected", "bad-status", "no-body"}

\* The stream holds no done frame, no error frame and no protocol violation.
OnlyChunksIn(fs) ==
    \A i \in 1..Len(fs) : FrameClass(fs[i]) \in {"chunk"} \cup NoEventClasses

\* C19: a session whose stream ends without a done frame, an error frame or
\* a protocol violation ends as a completion does: no error message,
\* isStreaming false, the reader released, and the assistant message holding
\* the contents of all the chunks of the stream.
C19_EndOfStreamCompletes ==
    (SessionEnded /\ StreamWasRead /\ OnlyChunksIn(StreamFrames(stream)))
        => /\ exitPath = "end-of-stream"
           /\ errorMessage = None
           /\ ~isStreaming
           /\ reader = "released"
           /\ AssistantContent = Flatten(ChunkContents(StreamFrames(stream)))

C19_Witness ==
    /\ SessionEnded
    /\ exitPath = "end-of-stream"
    /\ OnlyChunksIn(StreamFrames(stream))
    /\ errorMessage = None
    /\ AssistantContent = <<"a", "a">>

\* What an observer sees of an ended session: the content of its assistant
\* message, how it ended, and the error message.
Outcome(path) ==
    IF path \in {"done", "end-of-stream"} THEN "Completed"
    ELSE IF path = "abort" THEN "Cancelled"
    ELSE "Failed"

\* The same for a list of processEvent calls and what the last one threw.
ResultOf(events, thrown) ==
    [content |-> Flatten(AppliedContents(events)),
     outcome |-> IF thrown = None THEN "Completed" ELSE "Failed",
     error |-> thrown]

\* The result of the session on a body delivered in one read, followed by
\* the end of the stream when the loop has not ended by then.
WholeReadThen(first) ==
    IF first.thrown # None \/ first.doneSignal
    THEN ResultOf(first.events, first.thrown)
    ELSE CHOOSE r \in
            {ResultOf(first.events \o last.events, last.thrown) :
                last \in {LoopBody(first.pending, first.buffer, <<>>, TRUE)}} : TRUE

WholeReadResult(body) ==
    CHOOSE r \in {WholeReadThen(first) :
                     first \in {LoopBody(<<>>, <<>>, body, FALSE)}} : TRUE

\* C20: the result of a session that read its stream does not depend on how
\* the stream was cut into reads: it is the result of the same stream
\* delivered in one read.
C20_ResultIgnoresCuts ==
    (SessionEnded /\ StreamWasRead)
        => [content |-> AssistantContent,
            outcome |-> Outcome(exitPath),
            error |-> errorMessage] = WholeReadResult(stream)

====
